---- MODULE Spec2Model ----
(***************************************************************************)
(* Model of the closed-cases map page (ClosedCasesMap, MapController,      *)
(* HeatLayer).  The state is the React state of ClosedCasesMap, the        *)
(* requests in flight, the Leaflet map instance and what the last commit   *)
(* put on screen.  Every action is one event handler together with the     *)
(* re-render and the effects that React runs after it.                     *)
(*                                                                         *)
(* JavaScript numbers are modelled as exact rationals plus NaN; binary     *)
(* floating-point rounding is not modelled.                                *)
(***************************************************************************)
EXTENDS Integers, Sequences, FiniteSets, TLC

\* ------------------------------------------------------------------------
\* Bounds of the model
\* ------------------------------------------------------------------------
MaxPoints == 2      \* longest cases list a response carries
MaxInflight == 2    \* most requests outstanding at once
MaxDense == 6       \* longest cases list of a dense response
MaxPending == 1     \* PersonsTab: most POST and DELETE requests outstanding
                    \* together, most fetches, most searches

\* ------------------------------------------------------------------------
\* JavaScript numbers: a finite rational n/d in lowest terms (d > 0), or NaN
\* ------------------------------------------------------------------------
Abs(x) == IF x < 0 THEN -x ELSE x

RECURSIVE GCD(_, _)
GCD(a, b) == IF b = 0 THEN a ELSE GCD(b, a % b)

NaN == [fin |-> FALSE, n |-> 0, d |-> 1]

Rat(n, d) ==
  LET g == GCD(Abs(n), d)
  IN  [fin |-> TRUE, n |-> n \div g, d |-> d \div g]

Num(n) == Rat(n, 1)

\* a + b ; NaN (a missing property read as undefined) is absorbing
Add(a, b) ==
  IF ~a.fin \/ ~b.fin THEN NaN
  ELSE Rat(a.n * b.d + b.n * a.d, a.d * b.d)

\* a / b ; 0/0 is NaN (no other division by zero occurs in the program)
Div(a, b) ==
  IF ~a.fin \/ ~b.fin THEN NaN
  ELSE IF b.n = 0 THEN NaN
  ELSE IF b.n > 0 THEN Rat(a.n * b.d, a.d * b.n)
  ELSE Rat(-(a.n * b.d), a.d * (-b.n))

\* Math.floor: toward negative infinity
Floor(a) == IF ~a.fin THEN NaN ELSE Num(a.n \div a.d)

\* Math.min(a, b)
Min(a, b) ==
  IF ~a.fin \/ ~b.fin THEN NaN
  ELSE IF a.n * b.d <= b.n * a.d THEN a ELSE b

\* `${x}` for an integral number or NaN
NumToString(a) == IF ~a.fin THEN "NaN" ELSE ToString(a.n)

\* ------------------------------------------------------------------------
\* Inputs
\* ------------------------------------------------------------------------
Deg(milli) == Rat(milli, 1000)

Point(lat, lng) == [latitude |-> lat, longitude |-> lng]

\* Case records a response may carry; the last one lacks its latitude.
Points ==
  { Point(Deg(52001), Deg(-1001)),
    Point(Deg(52002), Deg(-1002)),
    Point(Deg(52000), Deg(-1000)),
    Point(Deg(52020), Deg(-1000)),
    Point(NaN, Deg(-1000)) }

SeqsUpTo(S, n) == UNION { [1..k -> S] : k \in 0..n }

Datasets == SeqsUpTo(Points, MaxPoints)

\* stats: null, or an object of which total_closed is modelled
NullStats == [null |-> TRUE, total_closed |-> 0]

Stats(n) == [null |-> FALSE, total_closed |-> n]

\* a response body with both keys, and one that omits both
FullResponse(c) ==
  [has_cases |-> TRUE, cases |-> c, has_stats |-> TRUE, stats |-> Stats(Len(c))]

BareResponse ==
  [has_cases |-> FALSE, cases |-> <<>>, has_stats |-> FALSE, stats |-> NullStats]

\* response.data of GET /reports/closed-cases-map
Responses == { FullResponse(c) : c \in Datasets } \cup { BareResponse }

\* dense responses: long lists over two points of different grid cells
DensePoints == { Point(Deg(52001), Deg(-1001)), Point(Deg(52000), Deg(-1000)) }

DenseResponses == { FullResponse(c) : c \in SeqsUpTo(DensePoints, MaxDense) }

DATE_RANGES == {"7", "30"}

\* a server whose answer depends on the requested window only
ServerCases(d) ==
  IF d = "7" THEN << Point(Deg(52000), Deg(-1000)) >>
  ELSE << Point(Deg(52000), Deg(-1000)), Point(Deg(52020), Deg(-1000)) >>

ServerResponse(d) == FullResponse(ServerCases(d))

Zooms == {5, 10, 11, 12, 20}

ZOOM_THRESHOLD == 12

\* variant: the map is created at the threshold zoom
InitialZoomAtThreshold == ZOOM_THRESHOLD

InitialZoom == 10

\* ------------------------------------------------------------------------
\* HeatLayer: grid aggregation
\* ------------------------------------------------------------------------
gridSize == Rat(1, 100)

SaturationCount == 5

\* variant: truncation toward zero instead of Math.floor
GridIndexTrunc(x) ==
  LET q == Div(x, gridSize)
  IN  IF ~q.fin THEN NaN
      ELSE IF q.n >= 0 THEN Num(q.n \div q.d) ELSE Num(-((-q.n) \div q.d))

GridIndex(x) == Floor(Div(x, gridSize))

GridKey(p) ==
  NumToString(GridIndex(p.latitude)) \o "," \o NumToString(GridIndex(p.longitude))

HasKey(grid, key) == \E i \in DOMAIN grid : grid[i].key = key

\* variant: a new cell starts at count 1 and is then incremented again
GridAddCountFromOne(grid, p) ==
  LET key == GridKey(p)
      g1  == IF ~HasKey(grid, key)
             THEN Append(grid, [key |-> key, lat |-> Num(0), lng |-> Num(0),
                                count |-> 1, cases |-> <<>>])
             ELSE grid
  IN  [i \in DOMAIN g1 |->
         IF g1[i].key = key
         THEN [g1[i] EXCEPT !.lat   = Add(@, p.latitude),
                            !.lng   = Add(@, p.longitude),
                            !.count = @ + 1,
                            !.cases = Append(@, p)]
         ELSE g1[i]]

\* variant: a new cell is put in front of the cells already there
GridAddInFront(grid, p) ==
  LET key == GridKey(p)
      g1  == IF ~HasKey(grid, key)
             THEN << [key |-> key, lat |-> Num(0), lng |-> Num(0),
                      count |-> 0, cases |-> <<>>] >> \o grid
             ELSE grid
  IN  [i \in DOMAIN g1 |->
         IF g1[i].key = key
         THEN [g1[i] EXCEPT !.lat   = Add(@, p.latitude),
                            !.lng   = Add(@, p.longitude),
                            !.count = @ + 1,
                            !.cases = Append(@, p)]
         ELSE g1[i]]

\* one iteration of points.forEach: the grid is an object whose own keys
\* keep insertion order, modelled as a sequence of keyed cells
GridAdd(grid, p) ==
  LET key == GridKey(p)
      g1  == IF ~HasKey(grid, key)
             THEN Append(grid, [key |-> key, lat |-> Num(0), lng |-> Num(0),
                                count |-> 0, cases |-> <<>>])
             ELSE grid
  IN  [i \in DOMAIN g1 |->
         IF g1[i].key = key
         THEN [g1[i] EXCEPT !.lat   = Add(@, p.latitude),
                            !.lng   = Add(@, p.longitude),
                            !.count = @ + 1,
                            !.cases = Append(@, p)]
         ELSE g1[i]]

RECURSIVE GridOfPrefix(_, _)
GridOfPrefix(points, k) ==
  IF k = 0 THEN <<>> ELSE GridAdd(GridOfPrefix(points, k - 1), points[k])

BuildGrid(points) == GridOfPrefix(points, Len(points))

\* variant: Math.min left out
IntensityUncapped(count) == Div(Num(count), Num(SaturationCount))

\* variant: normalised to 10 cases instead of 5
IntensityOverTen(count) == Min(Div(Num(count), Num(10)), Num(1))

Intensity(count) == Min(Div(Num(count), Num(SaturationCount)), Num(1))

\* one iteration of Object.values(grid).forEach: the circle marker of a cell
CircleOf(cell) ==
  [cell      |-> cell,
   avgLat    |-> Div(cell.lat, Num(cell.count)),
   avgLng    |-> Div(cell.lng, Num(cell.count)),
   intensity |-> Intensity(cell.count),
   radius    |-> 15 + cell.count * 3]

Aggregate(points) ==
  LET grid == BuildGrid(points)
  IN  [i \in DOMAIN grid |-> CircleOf(grid[i])]

NoLayer == [on |-> FALSE, cells |-> <<>>]

\* the effect of HeatLayer, run when it mounts or when map / points change
HeatLayerEffect(points, mp) ==
  IF mp = "null" \/ Len(points) = 0 THEN NoLayer
  ELSE [on |-> TRUE, cells |-> Aggregate(points)]

\* ------------------------------------------------------------------------
\* ClosedCasesMap
\* ------------------------------------------------------------------------
VARIABLES loading, cases, stats, dateRange, viewMode, currentZoom, map,
          mapZoom, inflight, mapCenter, showPins, view, heatLayer

mapVars == <<loading, cases, stats, dateRange, viewMode, currentZoom, map,
             mapZoom, inflight, mapCenter, showPins, view, heatLayer>>

\* MobileViewProvider: its state, the browser values it reads and writes,
\* and the item it found in localStorage when it mounted
VARIABLES uaMobile, innerWidth, isMobileDevice, mobileViewEnabled, storage,
          bodyClass, storedAtMount

mobileVars == <<uaMobile, innerWidth, isMobileDevice, mobileViewEnabled,
                storage, bodyClass, storedAtMount>>

\* PersonsTab: its props, its state, the requests it has outstanding, the
\* last toast it raised, the number of onUpdate calls (modulo 2) and the
\* role of the card whose Link / Unlink button was pressed last
VARIABLES canEdit, onUpdate, casePersons, personsLoading, linkDialogOpen,
          linkRole, searchTerm, searchResults, searching, linking,
          unlinkDialogOpen, personToUnlink, personsFetches, searches,
          linkRequests, unlinkRequests, toast, onUpdateCalls,
          linkButtonRole, unlinkButtonRole

personsVars == <<canEdit, onUpdate, casePersons, personsLoading,
                 linkDialogOpen, linkRole, searchTerm, searchResults,
                 searching, linking, unlinkDialogOpen, personToUnlink,
                 personsFetches, searches, linkRequests, unlinkRequests,
                 toast, onUpdateCalls, linkButtonRole, unlinkButtonRole>>

vars == <<mapVars, mobileVars, personsVars>>

DefaultCenter == <<Rat(528, 10), Rat(-16, 10)>>

RECURSIVE SumLat(_, _)
SumLat(cs, k) == IF k = 0 THEN Num(0) ELSE Add(SumLat(cs, k - 1), cs[k].latitude)

RECURSIVE SumLng(_, _)
SumLng(cs, k) == IF k = 0 THEN Num(0) ELSE Add(SumLng(cs, k - 1), cs[k].longitude)

ComputeCenter(cs) ==
  IF Len(cs) = 0 THEN DefaultCenter
  ELSE << Div(SumLat(cs, Len(cs)), Num(Len(cs))),
          Div(SumLng(cs, Len(cs)), Num(Len(cs))) >>

\* variant: useMemo with an empty dependency list
MapCenterMemoOnce(newCases) == mapCenter

\* useMemo(..., [cases])
MapCenterMemo(newCases) ==
  IF newCases # cases THEN ComputeCenter(newCases) ELSE mapCenter

\* variants of showPins with a plausible slip
ShowPinsStrict(mode, zoom) == mode = "pins" \/ zoom > ZOOM_THRESHOLD

ShowPinsBoth(mode, zoom) == mode = "pins" /\ zoom >= ZOOM_THRESHOLD

ShowPinsZoomOnly(mode, zoom) == zoom >= ZOOM_THRESHOLD

ShowPins(mode, zoom) == mode = "pins" \/ zoom >= ZOOM_THRESHOLD

\* variant: no placeholder branch for an empty list
RenderViewNoEmpty(ld, cs) == IF ld THEN "loading" ELSE "map"

\* the three branches of the map card
RenderView(ld, cs) ==
  IF ld THEN "loading" ELSE IF Len(cs) = 0 THEN "empty" ELSE "map"

\* response.data.cases || []
CasesOf(resp) == IF resp.has_cases THEN resp.cases ELSE <<>>

\* response.data.stats || null
StatsOf(resp) == IF resp.has_stats THEN resp.stats ELSE NullStats

\* MapController.handleZoom: onZoomChange(map.getZoom())
HandleZoom(z) == z

RemoveAt(s, i) == [j \in 1..(Len(s) - 1) |-> IF j < i THEN s[j] ELSE s[j + 1]]

\* variant: the effect depends on [map] only, so a new points list is ignored
HeatLayerCommitMapDep(heatMounted, depsSame, cs, mp) ==
  IF ~heatMounted THEN NoLayer
  ELSE IF heatLayer.on THEN heatLayer
  ELSE HeatLayerEffect(cs, mp)

\* HeatLayer across a commit: unmounting runs the cleanup (removeLayer), a
\* mount or a change of [map, points] runs cleanup and effect, otherwise the
\* layer of the previous commit stays
HeatLayerCommit(heatMounted, depsSame, cs, mp) ==
  IF ~heatMounted THEN NoLayer
  ELSE IF depsSame THEN heatLayer
  ELSE HeatLayerEffect(cs, mp)

\* Re-render after a handler set loading / cases / viewMode, followed by the
\* effects of the commit: MapContainer creates the map at zoom 10 and hands
\* it to setMap, MapController's initial check reports that zoom, and
\* HeatLayer's effect removes / rebuilds the layer when it (un)mounts or
\* when its dependencies change.
Commit(ld, cs, vm, mz, cz) ==
  LET container  == RenderView(ld, cs) = "map"
      wasMounted == map = "map"
      newMap     == IF container THEN "map" ELSE "null"
      newMapZoom == IF container /\ wasMounted THEN mz ELSE InitialZoom
      newZoom    == IF container /\ ~wasMounted THEN HandleZoom(newMapZoom) ELSE cz
      pins       == ShowPins(vm, newZoom)
      heatMounted == container /\ ~pins /\ newMap # "null"
  IN  /\ loading' = ld
      /\ cases' = cs
      /\ viewMode' = vm
      /\ map' = newMap
      /\ mapZoom' = newMapZoom
      /\ currentZoom' = newZoom
      /\ mapCenter' = MapCenterMemo(cs)
      /\ showPins' = pins
      /\ view' = RenderView(ld, cs)
      /\ heatLayer' = HeatLayerCommit(heatMounted,
                                      heatLayer.on /\ wasMounted /\ cs = cases,
                                      cs, newMap)
      /\ UNCHANGED <<mobileVars, personsVars>>

\* ------------------------------------------------------------------------
\* MobileViewProvider
\* ------------------------------------------------------------------------
Widths == {320, 375, 480, 600, 767, 768, 1024, 1280, 1920}

MobileBreakpoint == 768

\* values of localStorage.getItem('mobileViewEnabled'): absent, or what the
\* provider wrote before
StoredItems == {"null", "true", "false"}

JsonStringify(b) == IF b THEN "true" ELSE "false"

JsonParse(item) == item = "true"

DetectMobile(ua, width) == ua \/ width < MobileBreakpoint

\* the initializer of the mobileViewEnabled state
InitialMobileView(item, ua, width) ==
  IF item # "null" THEN JsonParse(item) ELSE DetectMobile(ua, width)

\* variant: classList.remove is never called
BodyClassKept(enabled) == bodyClass \/ enabled

\* classList.add / classList.remove of 'mobile-view'
BodyClass(enabled) == IF enabled THEN TRUE ELSE FALSE

\* setMobileViewEnabled(v) followed by the effect on [mobileViewEnabled]
CommitMobileView(v) ==
  /\ mobileViewEnabled' = v
  /\ storage' = IF v # mobileViewEnabled THEN JsonStringify(v) ELSE storage
  /\ bodyClass' = IF v # mobileViewEnabled THEN BodyClass(v) ELSE bodyClass

\* the provider before it is mounted (desktop browser, nothing stored)
MobileUnmounted ==
  /\ uaMobile = FALSE
  /\ innerWidth = 1024
  /\ isMobileDevice = FALSE
  /\ mobileViewEnabled = FALSE
  /\ storage = "null"
  /\ bodyClass = FALSE
  /\ storedAtMount = "null"

\* the provider after mounting and its two effects
MobileMounted ==
  \E ua \in BOOLEAN, w \in Widths, item \in StoredItems :
    /\ uaMobile = ua
    /\ innerWidth = w
    /\ storedAtMount = item
    /\ isMobileDevice = DetectMobile(ua, w)
    /\ mobileViewEnabled = InitialMobileView(item, ua, w)
    /\ storage = JsonStringify(InitialMobileView(item, ua, w))
    /\ bodyClass = InitialMobileView(item, ua, w)

ToggleMobileView ==
  /\ CommitMobileView(~mobileViewEnabled)
  /\ UNCHANGED <<uaMobile, innerWidth, isMobileDevice, storedAtMount, mapVars,
                   personsVars>>

\* a consumer calls the exposed setter
SetMobileViewEnabled ==
  \E v \in BOOLEAN :
    /\ CommitMobileView(v)
    /\ UNCHANGED <<uaMobile, innerWidth, isMobileDevice, storedAtMount, mapVars,
                   personsVars>>

\* window 'resize': handleResize
Resize ==
  \E w \in Widths :
    /\ w # innerWidth
    /\ innerWidth' = w
    /\ isMobileDevice' = DetectMobile(uaMobile, w)
    /\ UNCHANGED <<uaMobile, mobileViewEnabled, storage, bodyClass,
                   storedAtMount, mapVars,
                   personsVars>>

NextMobile ==
  \/ ToggleMobileView
  \/ SetMobileViewEnabled
  \/ Resize

\* ------------------------------------------------------------------------
\* PersonsTab
\* ------------------------------------------------------------------------
Roles == {"reporter", "offender"}

\* bodies of GET /cases/{id}/persons: each card's person is null or a
\* linked person (known by its id; one person may hold both roles)
CasePersonsData == [reporter : {"null", "p1"}, offender : {"null", "p1"}]

NullPerson == [id |-> "null", role |-> "null"]

SearchTerms == {"", " ", "ann"}

\* String.prototype.trim on the terms above
Trim(t) == IF t = " " THEN "" ELSE t

\* response.data.persons || [] of GET /persons?search=
SearchResultLists == {<<>>, <<"p1">>}

\* toast.success(`Person linked as ${linkRole}`); the error toasts are
\* modelled by their fallback texts
LinkedToast(role) ==
  IF role = "reporter" THEN "Person linked as reporter"
                       ELSE "Person linked as offender"

\* if (onUpdate) onUpdate()
CallOnUpdate ==
  onUpdateCalls' = IF onUpdate THEN (onUpdateCalls + 1) % 2 ELSE onUpdateCalls

\* fetchCasePersons up to its await: setLoading(true) and the GET
FetchCasePersons ==
  /\ personsLoading' = TRUE
  /\ personsFetches' = personsFetches + 1

\* the tab before it is mounted
PersonsUnmounted ==
  /\ canEdit = FALSE
  /\ onUpdate = FALSE
  /\ casePersons = [reporter |-> "null", offender |-> "null"]
  /\ personsLoading = TRUE
  /\ linkDialogOpen = FALSE
  /\ linkRole = "reporter"
  /\ searchTerm = ""
  /\ searchResults = <<>>
  /\ searching = FALSE
  /\ linking = FALSE
  /\ unlinkDialogOpen = FALSE
  /\ personToUnlink = NullPerson
  /\ personsFetches = 0
  /\ searches = 0
  /\ linkRequests = <<>>
  /\ unlinkRequests = <<>>
  /\ toast = "none"
  /\ onUpdateCalls = 0
  /\ linkButtonRole = "none"
  /\ unlinkButtonRole = "none"

\* the tab after mounting: the initial states and the effect's first
\* fetchCasePersons
PersonsMounted ==
  /\ canEdit \in BOOLEAN
  /\ onUpdate \in BOOLEAN
  /\ casePersons = [reporter |-> "null", offender |-> "null"]
  /\ personsLoading = TRUE
  /\ linkDialogOpen = FALSE
  /\ linkRole = "reporter"
  /\ searchTerm = ""
  /\ searchResults = <<>>
  /\ searching = FALSE
  /\ linking = FALSE
  /\ unlinkDialogOpen = FALSE
  /\ personToUnlink = NullPerson
  /\ personsFetches = 1
  /\ searches = 0
  /\ linkRequests = <<>>
  /\ unlinkRequests = <<>>
  /\ toast = "none"
  /\ onUpdateCalls = 0
  /\ linkButtonRole = "none"
  /\ unlinkButtonRole = "none"

\* GET /cases/{id}/persons resolves: setCasePersons, then finally
PersonsFetchResolve ==
  \E data \in CasePersonsData :
    /\ personsFetches > 0
    /\ casePersons' = data
    /\ personsLoading' = FALSE
    /\ personsFetches' = personsFetches - 1
    /\ UNCHANGED <<canEdit, onUpdate, linkDialogOpen, linkRole, searchTerm,
                   searchResults, searching, linking, unlinkDialogOpen,
                   personToUnlink, searches, linkRequests, unlinkRequests,
                   toast, onUpdateCalls, linkButtonRole, unlinkButtonRole,
                   mapVars, mobileVars>>

\* GET /cases/{id}/persons rejects: console.error, then finally
PersonsFetchReject ==
  /\ personsFetches > 0
  /\ personsLoading' = FALSE
  /\ personsFetches' = personsFetches - 1
  /\ UNCHANGED <<canEdit, onUpdate, casePersons, linkDialogOpen, linkRole,
                 searchTerm, searchResults, searching, linking,
                 unlinkDialogOpen, personToUnlink, searches, linkRequests,
                 unlinkRequests, toast, onUpdateCalls, linkButtonRole,
                 unlinkButtonRole, mapVars, mobileVars>>

\* variant: the Link button opens the dialog without setLinkRole
ClickLinkKeepRole(role) ==
  /\ ~personsLoading
  /\ canEdit
  /\ casePersons[role] = "null"
  /\ linkDialogOpen' = TRUE
  /\ linkButtonRole' = role
  /\ UNCHANGED <<canEdit, onUpdate, casePersons, personsLoading, linkRole,
                 searchTerm, searchResults, searching, linking,
                 unlinkDialogOpen, personToUnlink, personsFetches, searches,
                 linkRequests, unlinkRequests, toast, onUpdateCalls,
                 unlinkButtonRole, mapVars, mobileVars>>

\* the Link button of an empty card, rendered when canEdit and when the tab
\* is not showing its spinner
ClickLink(role) ==
  /\ ~personsLoading
  /\ canEdit
  /\ casePersons[role] = "null"
  /\ linkRole' = role
  /\ linkDialogOpen' = TRUE
  /\ linkButtonRole' = role
  /\ UNCHANGED <<canEdit, onUpdate, casePersons, personsLoading, searchTerm,
                 searchResults, searching, linking, unlinkDialogOpen,
                 personToUnlink, personsFetches, searches, linkRequests,
                 unlinkRequests, toast, onUpdateCalls, unlinkButtonRole,
                 mapVars, mobileVars>>

\* the Unlink button of a filled card (canUnlink is true for both cards)
ClickUnlink(role) ==
  /\ ~personsLoading
  /\ canEdit
  /\ casePersons[role] # "null"
  /\ personToUnlink' = [id |-> casePersons[role], role |-> role]
  /\ unlinkDialogOpen' = TRUE
  /\ unlinkButtonRole' = role
  /\ UNCHANGED <<canEdit, onUpdate, casePersons, personsLoading,
                 linkDialogOpen, linkRole, searchTerm, searchResults,
                 searching, linking, personsFetches, searches, linkRequests,
                 unlinkRequests, toast, onUpdateCalls, linkButtonRole,
                 mapVars, mobileVars>>

\* Cancel, or the dialog's own close: setLinkDialogOpen(false)
CloseLinkDialog ==
  /\ ~personsLoading
  /\ linkDialogOpen
  /\ linkDialogOpen' = FALSE
  /\ UNCHANGED <<canEdit, onUpdate, casePersons, personsLoading, linkRole,
                 searchTerm, searchResults, searching, linking,
                 unlinkDialogOpen, personToUnlink, personsFetches, searches,
                 linkRequests, unlinkRequests, toast, onUpdateCalls,
                 linkButtonRole, unlinkButtonRole, mapVars, mobileVars>>

\* typing in the search input
ChangeSearchTerm ==
  \E t \in SearchTerms :
    /\ ~personsLoading
    /\ linkDialogOpen
    /\ searchTerm' = t
    /\ UNCHANGED <<canEdit, onUpdate, casePersons, personsLoading,
                   linkDialogOpen, linkRole, searchResults, searching,
                   linking, unlinkDialogOpen, personToUnlink, personsFetches,
                   searches, linkRequests, unlinkRequests, toast,
                   onUpdateCalls, linkButtonRole, unlinkButtonRole,
                   mapVars, mobileVars>>

\* Enter in the search input, or the search button: handleSearch up to its
\* await
HandleSearch ==
  /\ ~personsLoading
  /\ linkDialogOpen
  /\ IF Trim(searchTerm) = ""
       THEN UNCHANGED <<searching, searches>>
       ELSE /\ searches < MaxPending
            /\ searching' = TRUE
            /\ searches' = searches + 1
  /\ UNCHANGED <<canEdit, onUpdate, casePersons, personsLoading,
                 linkDialogOpen, linkRole, searchTerm, searchResults,
                 linking, unlinkDialogOpen, personToUnlink, personsFetches,
                 linkRequests, unlinkRequests, toast, onUpdateCalls,
                 linkButtonRole, unlinkButtonRole, mapVars, mobileVars>>

\* GET /persons?search= resolves
SearchResolve ==
  \E results \in SearchResultLists :
    /\ searches > 0
    /\ searchResults' = results
    /\ searching' = FALSE
    /\ searches' = searches - 1
    /\ UNCHANGED <<canEdit, onUpdate, casePersons, personsLoading,
                   linkDialogOpen, linkRole, searchTerm, linking,
                   unlinkDialogOpen, personToUnlink, personsFetches,
                   linkRequests, unlinkRequests, toast, onUpdateCalls,
                   linkButtonRole, unlinkButtonRole, mapVars, mobileVars>>

\* GET /persons?search= rejects
SearchReject ==
  /\ searches > 0
  /\ toast' = "Failed to search persons"
  /\ searching' = FALSE
  /\ searches' = searches - 1
  /\ UNCHANGED <<canEdit, onUpdate, casePersons, personsLoading,
                 linkDialogOpen, linkRole, searchTerm, searchResults,
                 linking, unlinkDialogOpen, personToUnlink, personsFetches,
                 linkRequests, unlinkRequests, onUpdateCalls,
                 linkButtonRole, unlinkButtonRole, mapVars, mobileVars>>

\* a click on a search result: handleLinkPerson(person.id) up to its await
HandleLinkPerson ==
  \E k \in DOMAIN searchResults :
    /\ ~personsLoading
    /\ linkDialogOpen
    /\ Len(linkRequests) + Len(unlinkRequests) < MaxPending
    /\ linking' = TRUE
    /\ linkRequests' = Append(linkRequests,
                              [personId |-> searchResults[k], role |-> linkRole])
    /\ UNCHANGED <<canEdit, onUpdate, casePersons, personsLoading,
                   linkDialogOpen, linkRole, searchTerm, searchResults,
                   searching, unlinkDialogOpen, personToUnlink,
                   personsFetches, searches, unlinkRequests, toast,
                   onUpdateCalls, linkButtonRole, unlinkButtonRole,
                   mapVars, mobileVars>>

\* the POST resolves: the rest of the try block, then finally
LinkResolve(i) ==
  /\ i \in DOMAIN linkRequests
  /\ personsFetches < MaxPending
  /\ toast' = LinkedToast(linkRequests[i].role)
  /\ linkDialogOpen' = FALSE
  /\ searchTerm' = ""
  /\ searchResults' = <<>>
  /\ FetchCasePersons
  /\ CallOnUpdate
  /\ linking' = FALSE
  /\ linkRequests' = RemoveAt(linkRequests, i)
  /\ UNCHANGED <<canEdit, onUpdate, casePersons, linkRole, searching,
                 unlinkDialogOpen, personToUnlink, searches, unlinkRequests,
                 linkButtonRole, unlinkButtonRole, mapVars, mobileVars>>

LinkSuccess == \E i \in DOMAIN linkRequests : LinkResolve(i)

\* variant: the catch block also closes the dialog and clears the search
LinkRejectClosing(i) ==
  /\ i \in DOMAIN linkRequests
  /\ toast' = "Failed to link person"
  /\ linkDialogOpen' = FALSE
  /\ searchTerm' = ""
  /\ searchResults' = <<>>
  /\ linking' = FALSE
  /\ linkRequests' = RemoveAt(linkRequests, i)
  /\ UNCHANGED <<canEdit, onUpdate, casePersons, personsLoading, linkRole,
                 searching, unlinkDialogOpen, personToUnlink, personsFetches,
                 searches, unlinkRequests, onUpdateCalls, linkButtonRole,
                 unlinkButtonRole, mapVars, mobileVars>>

\* the POST rejects: catch, then finally
LinkReject(i) ==
  /\ i \in DOMAIN linkRequests
  /\ toast' = "Failed to link person"
  /\ linking' = FALSE
  /\ linkRequests' = RemoveAt(linkRequests, i)
  /\ UNCHANGED <<canEdit, onUpdate, casePersons, personsLoading,
                 linkDialogOpen, linkRole, searchTerm, searchResults,
                 searching, unlinkDialogOpen, personToUnlink, personsFetches,
                 searches, unlinkRequests, onUpdateCalls, linkButtonRole,
                 unlinkButtonRole, mapVars, mobileVars>>

LinkFailure == \E i \in DOMAIN linkRequests : LinkReject(i)

\* the Unlink button of the confirmation: handleUnlinkPerson up to its
\* await; the dialog component may close itself on the click
HandleUnlinkPerson ==
  \E closes \in BOOLEAN :
    /\ ~personsLoading
    /\ unlinkDialogOpen
    /\ IF personToUnlink = NullPerson
         THEN UNCHANGED unlinkRequests
         ELSE /\ Len(linkRequests) + Len(unlinkRequests) < MaxPending
              /\ unlinkRequests' = Append(unlinkRequests, personToUnlink)
    /\ unlinkDialogOpen' = ~closes
    /\ UNCHANGED <<canEdit, onUpdate, casePersons, personsLoading,
                   linkDialogOpen, linkRole, searchTerm, searchResults,
                   searching, linking, personToUnlink, personsFetches,
                   searches, linkRequests, toast, onUpdateCalls,
                   linkButtonRole, unlinkButtonRole, mapVars, mobileVars>>

\* Cancel of the confirmation, or its own close: setUnlinkDialogOpen(false)
CloseUnlinkDialog ==
  /\ ~personsLoading
  /\ unlinkDialogOpen
  /\ unlinkDialogOpen' = FALSE
  /\ UNCHANGED <<canEdit, onUpdate, casePersons, personsLoading,
                 linkDialogOpen, linkRole, searchTerm, searchResults,
                 searching, linking, personToUnlink, personsFetches,
                 searches, linkRequests, unlinkRequests, toast,
                 onUpdateCalls, linkButtonRole, unlinkButtonRole,
                 mapVars, mobileVars>>

\* the DELETE resolves: the rest of the try block
UnlinkResolve(i) ==
  /\ i \in DOMAIN unlinkRequests
  /\ personsFetches < MaxPending
  /\ toast' = "Person unlinked from case"
  /\ unlinkDialogOpen' = FALSE
  /\ personToUnlink' = NullPerson
  /\ FetchCasePersons
  /\ CallOnUpdate
  /\ unlinkRequests' = RemoveAt(unlinkRequests, i)
  /\ UNCHANGED <<canEdit, onUpdate, casePersons, linkDialogOpen, linkRole,
                 searchTerm, searchResults, searching, linking, searches,
                 linkRequests, linkButtonRole, unlinkButtonRole,
                 mapVars, mobileVars>>

UnlinkSuccess == \E i \in DOMAIN unlinkRequests : UnlinkResolve(i)

\* the DELETE rejects: catch
UnlinkReject(i) ==
  /\ i \in DOMAIN unlinkRequests
  /\ toast' = "Failed to unlink person"
  /\ unlinkRequests' = RemoveAt(unlinkRequests, i)
  /\ UNCHANGED <<canEdit, onUpdate, casePersons, personsLoading,
                 linkDialogOpen, linkRole, searchTerm, searchResults,
                 searching, linking, unlinkDialogOpen, personToUnlink,
                 personsFetches, searches, linkRequests, onUpdateCalls,
                 linkButtonRole, unlinkButtonRole, mapVars, mobileVars>>

UnlinkFailure == \E i \in DOMAIN unlinkRequests : UnlinkReject(i)

PressLink == \E role \in Roles : ClickLink(role)

PressUnlink == \E role \in Roles : ClickUnlink(role)

NextPersons ==
  \/ PersonsFetchResolve
  \/ PersonsFetchReject
  \/ PressLink
  \/ PressUnlink
  \/ CloseLinkDialog
  \/ ChangeSearchTerm
  \/ HandleSearch
  \/ SearchResolve
  \/ SearchReject
  \/ HandleLinkPerson
  \/ LinkSuccess
  \/ LinkFailure
  \/ HandleUnlinkPerson
  \/ CloseUnlinkDialog
  \/ UnlinkSuccess
  \/ UnlinkFailure

\* ------------------------------------------------------------------------
\* Initial states and specifications
\* ------------------------------------------------------------------------
InitMap ==
  /\ loading = TRUE
  /\ cases = <<>>
  /\ stats = NullStats
  /\ dateRange = "30"
  /\ viewMode = "heat"
  /\ currentZoom = InitialZoom
  /\ map = "null"
  /\ mapZoom = InitialZoom
  /\ inflight = <<"30">>
  /\ mapCenter = ComputeCenter(<<>>)
  /\ showPins = ShowPins("heat", InitialZoom)
  /\ view = RenderView(TRUE, <<>>)
  /\ heatLayer = NoLayer

Init == InitMap /\ MobileUnmounted /\ PersonsUnmounted

InitMobile == InitMap /\ MobileMounted /\ PersonsUnmounted

SpecMobile == InitMobile /\ [][NextMobile]_vars

InitPersons == InitMap /\ MobileUnmounted /\ PersonsMounted

SpecPersons == InitPersons /\ [][NextPersons]_vars

\* date-range Select: setDateRange, then the effect calls fetchClosedCases
SelectDateRange ==
  \E d \in DATE_RANGES :
    /\ d # dateRange
    /\ Len(inflight) < MaxInflight
    /\ dateRange' = d
    /\ inflight' = Append(inflight, d)
    /\ UNCHANGED stats
    /\ Commit(TRUE, cases, viewMode, mapZoom, currentZoom)

\* the awaited GET of request i resolves with body resp: setCases, setStats,
\* finally setLoading(false)
FetchResolve(i, resp) ==
  /\ inflight' = RemoveAt(inflight, i)
  /\ UNCHANGED dateRange
  /\ stats' = StatsOf(resp)
  /\ Commit(FALSE, CasesOf(resp), viewMode, mapZoom, currentZoom)

FetchSuccess ==
  \E i \in DOMAIN inflight : \E resp \in Responses : FetchResolve(i, resp)

\* variant: the catch block also clears the list
FetchRejectClearing(i) ==
  /\ inflight' = RemoveAt(inflight, i)
  /\ UNCHANGED <<dateRange, stats>>
  /\ Commit(FALSE, <<>>, viewMode, mapZoom, currentZoom)

\* the awaited GET of request i rejects: toast, finally setLoading(false)
FetchReject(i) ==
  /\ inflight' = RemoveAt(inflight, i)
  /\ UNCHANGED <<dateRange, stats>>
  /\ Commit(FALSE, cases, viewMode, mapZoom, currentZoom)

FetchFailure == \E i \in DOMAIN inflight : FetchReject(i)

\* view-mode Select: setViewMode
SelectViewMode ==
  \E m \in {"heat", "pins"} :
    /\ m # viewMode
    /\ UNCHANGED <<dateRange, inflight, stats>>
    /\ Commit(loading, cases, m, mapZoom, currentZoom)

\* Leaflet 'zoomend' on the mounted map
ZoomEnd ==
  \E z \in Zooms :
    /\ map = "map"
    /\ z # mapZoom
    /\ UNCHANGED <<dateRange, inflight, stats>>
    /\ Commit(loading, cases, viewMode, z, HandleZoom(z))

Next ==
  \/ SelectDateRange
  \/ FetchSuccess
  \/ FetchFailure
  \/ SelectViewMode
  \/ ZoomEnd

Spec == Init /\ [][Next]_vars

\* the page fed with dense responses
FetchSuccessDense ==
  \E i \in DOMAIN inflight : \E resp \in DenseResponses : FetchResolve(i, resp)

NextDense ==
  \/ FetchSuccessDense
  \/ SelectViewMode
  \/ ZoomEnd

SpecDense == Init /\ [][NextDense]_vars

\* the page against the window-determined server, requests resolving in any
\* order
FetchSuccessServer ==
  \E i \in DOMAIN inflight : FetchResolve(i, ServerResponse(inflight[i]))

NextRace ==
  \/ SelectDateRange
  \/ FetchSuccessServer
  \/ SelectViewMode
  \/ ZoomEnd

SpecRace == Init /\ [][NextRace]_vars

TypeOK ==
  /\ loading \in BOOLEAN
  /\ \A k \in DOMAIN cases : cases[k] \in Points
  /\ stats.null \in BOOLEAN
  /\ dateRange \in DATE_RANGES
  /\ viewMode \in {"heat", "pins"}
  /\ currentZoom \in Zooms
  /\ map \in {"null", "map"}
  /\ mapZoom \in Zooms
  /\ Len(inflight) <= MaxInflight
  /\ showPins \in BOOLEAN
  /\ view \in {"loading", "empty", "map"}
  /\ heatLayer.on \in BOOLEAN

\* ------------------------------------------------------------------------
\* Properties
\* ------------------------------------------------------------------------

\* C1: in every reachable state the effective display mode is pins exactly
\* when the user-selected mode is 'pins' or the current zoom is at least 12,
\* and heat otherwise (zoom 12 with mode 'heat' gives pins, any zoom below
\* 12 with mode 'heat' gives heat).
C1_EffectiveMode ==
  /\ showPins <=> (viewMode = "pins" \/ currentZoom >= 12)
  /\ (viewMode = "heat" /\ currentZoom = 12) => showPins
  /\ (viewMode = "heat" /\ currentZoom < 12) => ~showPins
  /\ view = "map" => (heatLayer.on <=> ~showPins)

C1_Witness ==
  view = "map" /\ viewMode = "heat" /\ mapZoom = 12 /\ currentZoom = 12 /\ showPins

\* C2 as stated: the user-selected mode always wins, so mode 'heat' gives
\* heat at every zoom and mode 'pins' gives pins at every zoom.
C2_ModeAlwaysWins ==
  /\ viewMode = "heat" => ~showPins
  /\ viewMode = "pins" => showPins

\* C2 amended: mode 'pins' wins over the zoom (pins even at zoom 5), but mode
\* 'heat' wins only below the threshold: at a zoom of 12 or more (e.g. 20)
\* the effective mode is pins, and selecting 'heat' while in Pins moves the
\* view to Heat exactly when the zoom is below the threshold.
C2_PinsWinsHeatBelowThreshold ==
  /\ [](viewMode = "pins" => showPins)
  /\ []((viewMode = "heat" /\ currentZoom >= ZOOM_THRESHOLD) => showPins)
  /\ [][(showPins /\ viewMode = "pins" /\ viewMode' = "heat")
          => (~showPins' <=> currentZoom' < ZOOM_THRESHOLD)]_vars

C2_Witness ==
  view = "map" /\ viewMode = "pins" /\ mapZoom = 5 /\ currentZoom = 5 /\ showPins

\* C4: while the user-selected mode stays 'pins' no step (in particular no
\* zoom event, also one that lowers the zoom below the threshold) makes the
\* effective mode heat; from Heat, a step that brings the zoom to the
\* threshold or above, or that selects 'pins', makes the effective mode pins.
C4_PinsSticky ==
  /\ [][(viewMode = "pins" /\ viewMode' = "pins") => showPins']_vars
  /\ [][(~showPins /\ (currentZoom' >= ZOOM_THRESHOLD \/ viewMode' = "pins"))
          => showPins']_vars

C4_Witness ==
  /\ view = "map" /\ viewMode = "pins"
  /\ mapZoom = 11 /\ currentZoom = 11
  /\ showPins /\ ~heatLayer.on

\* ------------------------------------------------------------------------
\* Reference arithmetic of the aggregation properties, in thousandths of a
\* degree, independent of the number model above
\* ------------------------------------------------------------------------
Finite(p) == p.latitude.fin /\ p.longitude.fin

Milli(x) == (x.n * 1000) \div x.d

RECURSIVE MilliSumLat(_, _)
MilliSumLat(ps, k) ==
  IF k = 0 THEN 0 ELSE MilliSumLat(ps, k - 1) + Milli(ps[k].latitude)

RECURSIVE MilliSumLng(_, _)
MilliSumLng(ps, k) ==
  IF k = 0 THEN 0 ELSE MilliSumLng(ps, k - 1) + Milli(ps[k].longitude)

RECURSIVE CountSum(_, _)
CountSum(cells, k) ==
  IF k = 0 THEN 0 ELSE CountSum(cells, k - 1) + cells[k].cell.count

\* x is the mean of values whose sum is total thousandths over count values
IsMean(x, total, count) == x.fin /\ x.n * 1000 * count = total * x.d

\* bucket index floor(x / 0.01) of a finite coordinate
Bucket(x) == (x.n * 100) \div x.d

\* indices of the cells of the layer whose member list holds point p
CellsHolding(p) ==
  { i \in DOMAIN heatLayer.cells :
      \E j \in DOMAIN heatLayer.cells[i].cell.cases :
        heatLayer.cells[i].cell.cases[j] = p }

\* C3: count conservation: every point handed to the aggregation is in the
\* member list of exactly one cell, the counts of all cells sum to the
\* number of points, and each count is the length of the cell's member list.
C3_CountConservation ==
  heatLayer.on =>
    /\ CountSum(heatLayer.cells, Len(heatLayer.cells)) = Len(cases)
    /\ \A i \in DOMAIN heatLayer.cells :
         heatLayer.cells[i].cell.count = Len(heatLayer.cells[i].cell.cases)
    /\ \A k \in DOMAIN cases : Cardinality(CellsHolding(cases[k])) = 1

C3_Witness ==
  /\ heatLayer.on
  /\ Len(cases) = 2
  /\ Len(heatLayer.cells) = 1
  /\ heatLayer.cells[1].cell.count = 2

\* C5: floor bucketing: two points, at least one of them with both
\* coordinates present, share a cell iff floor(latitude / 0.01) and
\* floor(longitude / 0.01) are both equal, floor rounding toward negative
\* infinity; (52.001,-1.001) and (52.002,-1.002) share bucket (5200,-101),
\* (52.0,-1.0) and (52.02,-1.0) do not share one; a cell's centroid is the
\* arithmetic mean of its members' coordinates.
C5_FloorBucketing ==
  heatLayer.on =>
    /\ \A k, l \in DOMAIN cases :
         Finite(cases[k]) =>
           ( (CellsHolding(cases[k]) = CellsHolding(cases[l]))
             <=> /\ Finite(cases[l])
                 /\ Bucket(cases[k].latitude) = Bucket(cases[l].latitude)
                 /\ Bucket(cases[k].longitude) = Bucket(cases[l].longitude) )
    /\ \A i \in DOMAIN heatLayer.cells :
         LET c == heatLayer.cells[i]
             m == c.cell.cases
         IN  (\A j \in DOMAIN m : Finite(m[j])) =>
               /\ IsMean(c.avgLat, MilliSumLat(m, Len(m)), Len(m))
               /\ IsMean(c.avgLng, MilliSumLng(m, Len(m)), Len(m))
    /\ cases = << Point(Deg(52001), Deg(-1001)), Point(Deg(52002), Deg(-1002)) >>
         => /\ Len(heatLayer.cells) = 1
            /\ heatLayer.cells[1].cell.key = "5200,-101"
    /\ cases = << Point(Deg(52000), Deg(-1000)), Point(Deg(52020), Deg(-1000)) >>
         => Len(heatLayer.cells) = 2

C5_Witness ==
  /\ heatLayer.on
  /\ cases = << Point(Deg(52001), Deg(-1001)), Point(Deg(52002), Deg(-1002)) >>
  /\ Len(heatLayer.cells) = 1
  /\ heatLayer.cells[1].cell.key = "5200,-101"
  /\ heatLayer.cells[1].avgLat = Rat(104003, 2000)
  /\ heatLayer.cells[1].avgLng = Rat(-2003, 2000)

\* C6: a point whose latitude or longitude is missing or non-finite never
\* reaches the aggregation: it is in no cases list handed to the heat layer
\* and in no cell's member list.
C6_MalformedFilteredOut ==
  /\ \A k \in DOMAIN cases : Finite(cases[k])
  /\ \A i \in DOMAIN heatLayer.cells :
       \A j \in DOMAIN heatLayer.cells[i].cell.cases :
         Finite(heatLayer.cells[i].cell.cases[j])

\* C7: no stale aggregation: a heat layer is on the map only while the map is
\* shown in the heat mode, and then its cells are the aggregation of the
\* current cases list; a step into the pins mode removes the layer and a
\* step into the heat mode with the map shown puts a rebuilt layer on it.
C7_NoStaleAggregation ==
  /\ [](heatLayer.on =>
          /\ view = "map" /\ ~showPins
          /\ heatLayer.cells = Aggregate(cases))
  /\ []((view = "map" /\ ~showPins) => heatLayer.on)
  /\ [][(~showPins /\ showPins') => ~heatLayer'.on]_vars
  /\ [][(showPins /\ ~showPins' /\ view' = "map")
          => (heatLayer'.on /\ heatLayer'.cells = Aggregate(cases'))]_vars

\* a layer that was rebuilt for a dataset which replaced another one while
\* the map stayed mounted (an earlier request was still outstanding)
C7_Witness ==
  /\ heatLayer.on
  /\ view = "map"
  /\ inflight = <<>>
  /\ dateRange = "7"
  /\ mapZoom = 11
  /\ Len(heatLayer.cells) = 2

\* C8: a list of exactly one point aggregates to exactly one cell with count
\* 1, that point as its only member, the point's own coordinates as the
\* centroid, and intensity 1/5.
C8_SinglePoint ==
  (heatLayer.on /\ Len(cases) = 1) =>
    /\ Len(heatLayer.cells) = 1
    /\ heatLayer.cells[1].cell.count = 1
    /\ heatLayer.cells[1].cell.cases = << cases[1] >>
    /\ heatLayer.cells[1].avgLat = cases[1].latitude
    /\ heatLayer.cells[1].avgLng = cases[1].longitude
    /\ heatLayer.cells[1].intensity.fin
    /\ heatLayer.cells[1].intensity.n * 5 = heatLayer.cells[1].intensity.d

C8_Witness ==
  /\ heatLayer.on
  /\ cases = << Point(Deg(52020), Deg(-1000)) >>
  /\ Len(heatLayer.cells) = 1
  /\ heatLayer.cells[1].avgLat = Deg(52020)

\* C9: an empty dataset is a valid state: once loaded, the placeholder is
\* shown, no map is created and no heat layer is on the map; the
\* aggregation of no points has no cells.
C9_EmptyDataset ==
  /\ (~loading /\ Len(cases) = 0) => (view = "empty" /\ map = "null")
  /\ Len(cases) = 0 => (~heatLayer.on /\ heatLayer.cells = <<>>)
  /\ Len(cases) = 0 => Aggregate(cases) = <<>>

C9_Witness ==
  /\ ~loading /\ cases = <<>> /\ inflight = <<>>
  /\ view = "empty" /\ ~heatLayer.on
  /\ dateRange = "7"

\* C10: the map center is computeCenter of the current cases list: the mean
\* latitude and mean longitude of a non-empty list (NaN where a coordinate
\* is missing), (52.8, -1.6) for the empty list; a step that keeps the cases
\* list (a zoom event, a mode selection) keeps the center.
C10_MapCenter ==
  /\ [](IF Len(cases) = 0
        THEN /\ IsMean(mapCenter[1], 52800, 1)
             /\ IsMean(mapCenter[2], -1600, 1)
        ELSE /\ IF \A k \in DOMAIN cases : cases[k].latitude.fin
                THEN IsMean(mapCenter[1], MilliSumLat(cases, Len(cases)), Len(cases))
                ELSE ~mapCenter[1].fin
             /\ IF \A k \in DOMAIN cases : cases[k].longitude.fin
                THEN IsMean(mapCenter[2], MilliSumLng(cases, Len(cases)), Len(cases))
                ELSE ~mapCenter[2].fin)
  /\ [][cases' = cases => mapCenter' = mapCenter]_vars

C10_Witness ==
  /\ cases = << Point(Deg(52000), Deg(-1000)), Point(Deg(52020), Deg(-1000)) >>
  /\ mapCenter = << Deg(52010), Deg(-1000) >>
  /\ viewMode = "pins"
  /\ mapZoom = 20

\* reference bucket of a point: the two floor indices, a missing coordinate
\* being a bucket of its own
RefKey(p) ==
  << p.latitude.fin, IF p.latitude.fin THEN Bucket(p.latitude) ELSE 0,
     p.longitude.fin, IF p.longitude.fin THEN Bucket(p.longitude) ELSE 0 >>

\* position in the cases list of the first point of the bucket of p
FirstIndex(p) ==
  CHOOSE k \in DOMAIN cases :
    /\ RefKey(cases[k]) = RefKey(p)
    /\ \A l \in 1..(k - 1) : RefKey(cases[l]) # RefKey(p)

SameBucket(p, q) == RefKey(p) = RefKey(q)

\* C12: stable order: the cells of the layer come in the order in which
\* their buckets first occur in the cases list, no bucket has two cells, and
\* the members of a cell are the points of its bucket in input order; a layer
\* rebuilt for the same cases list is identical to the one before.
C12_StableOrder ==
  /\ [](heatLayer.on =>
          /\ \A i, j \in DOMAIN heatLayer.cells :
               i < j => FirstIndex(heatLayer.cells[i].cell.cases[1])
                          < FirstIndex(heatLayer.cells[j].cell.cases[1])
          /\ \A i \in DOMAIN heatLayer.cells :
               LET first == heatLayer.cells[i].cell.cases[1]
               IN  heatLayer.cells[i].cell.cases
                     = SelectSeq(cases, LAMBDA q : SameBucket(q, first)))
  /\ [][(heatLayer.on /\ heatLayer'.on /\ cases' = cases)
          => heatLayer' = heatLayer]_vars

C12_Witness ==
  /\ heatLayer.on
  /\ cases = << Point(Deg(52020), Deg(-1000)), Point(Deg(52001), Deg(-1001)) >>
  /\ Len(heatLayer.cells) = 2
  /\ heatLayer.cells[1].cell.key = "5202,-100"
  /\ heatLayer.cells[2].cell.key = "5200,-101"

\* C13: the page starts in Heat: at mount the user-selected mode is 'heat'
\* and the zoom is 10, below the threshold 12, so the effective mode is
\* heat; whenever the map is created its zoom is 10 and the controller's
\* initial check reports 10.
C13_StartsInHeat ==
  /\ viewMode = "heat" /\ currentZoom = 10 /\ currentZoom < ZOOM_THRESHOLD
  /\ ~showPins /\ ~heatLayer.on
  /\ [][(map = "null" /\ map' = "map")
          => /\ mapZoom' = 10 /\ currentZoom' = 10
             /\ viewMode' = "heat" => (~showPins' /\ heatLayer'.on)]_vars

C13_Witness ==
  /\ map = "map" /\ mapZoom = 10 /\ currentZoom = 10
  /\ viewMode = "heat" /\ ~showPins /\ heatLayer.on
  /\ dateRange = "30" /\ inflight = <<>>

\* C15: a rejected fetch leaves cases and stats as they are, hands no new
\* list to the heat layer, issues no new request and resets loading; a
\* resolved fetch replaces cases and stats by those of the response, [] and
\* null standing in for omitted ones, and resets loading.
C15_FetchOutcome ==
  /\ [][FetchFailure =>
          /\ cases' = cases /\ stats' = stats
          /\ ~loading'
          /\ Len(inflight') = Len(inflight) - 1
          /\ heatLayer'.on => heatLayer'.cells = Aggregate(cases)]_vars
  /\ [][\A i \in DOMAIN inflight : \A resp \in Responses :
          FetchResolve(i, resp) =>
            /\ cases' = (IF resp.has_cases THEN resp.cases ELSE <<>>)
            /\ stats' = (IF resp.has_stats THEN resp.stats ELSE NullStats)
            /\ ~loading'
            /\ Len(inflight') = Len(inflight) - 1]_vars

C15_Witness ==
  /\ ~loading /\ inflight = <<>> /\ dateRange = "7"
  /\ Len(cases) = 2 /\ stats = Stats(2)
  /\ view = "map"

\* a <= b for finite numbers
Leq(a, b) == a.n * b.d <= b.n * a.d

\* C11: intensity bound: every cell of the layer has intensity
\* min(count / 5, 1), so 0 < intensity <= 1, a cell with at least as many
\* members as another has at least its intensity, and a cell of 5 or more
\* members has intensity exactly 1.
C11_IntensityBound ==
  heatLayer.on =>
    /\ \A i \in DOMAIN heatLayer.cells :
         LET c == heatLayer.cells[i]
             n == Len(c.cell.cases)
         IN  /\ c.intensity.fin
             /\ c.intensity.n * 5 = (IF n < 5 THEN n ELSE 5) * c.intensity.d
             /\ 0 < c.intensity.n
             /\ c.intensity.n <= c.intensity.d
             /\ n >= 5 => (c.intensity.n = 1 /\ c.intensity.d = 1)
    /\ \A i, j \in DOMAIN heatLayer.cells :
         heatLayer.cells[i].cell.count <= heatLayer.cells[j].cell.count
           => Leq(heatLayer.cells[i].intensity, heatLayer.cells[j].intensity)

C11_Witness ==
  /\ heatLayer.on
  /\ Len(heatLayer.cells) = 2
  /\ heatLayer.cells[1].cell.count = 5
  /\ heatLayer.cells[1].intensity = Num(1)
  /\ heatLayer.cells[2].cell.count = 1
  /\ heatLayer.cells[2].intensity = Rat(1, 5)

\* C14: latest selection wins: once no request is outstanding, the cases and
\* stats shown are those the server returns for the selected date range, and
\* loading is true as long as a request is outstanding.
C14_LatestSelectionWins ==
  /\ inflight = <<>> =>
       /\ cases = ServerCases(dateRange)
       /\ stats = Stats(Len(ServerCases(dateRange)))
  /\ inflight # <<>> => loading

\* C16: the provider starts with the stored preference when there is one and
\* with the device detection otherwise; in every state the stored item is the
\* current mobileViewEnabled and the body carries 'mobile-view' exactly when
\* it is true; a toggle negates the flag; a resize changes isMobileDevice
\* only.
C16_MobilePreference ==
  /\ mobileViewEnabled = (IF storedAtMount = "true" THEN TRUE
                          ELSE IF storedAtMount = "false" THEN FALSE
                          ELSE uaMobile \/ innerWidth < 768)
  /\ [](storage = (IF mobileViewEnabled THEN "true" ELSE "false"))
  /\ [](bodyClass <=> mobileViewEnabled)
  /\ [][ToggleMobileView => mobileViewEnabled' = ~mobileViewEnabled]_vars
  /\ [][innerWidth' # innerWidth =>
          /\ isMobileDevice' = (uaMobile \/ innerWidth' < 768)
          /\ UNCHANGED <<mobileViewEnabled, storage, bodyClass>>]_vars

\* the stored preference was on, the view was switched off on a phone
C16_Witness ==
  /\ storedAtMount = "true"
  /\ ~mobileViewEnabled /\ storage = "false" /\ ~bodyClass
  /\ isMobileDevice /\ innerWidth = 375

\* C17: whenever a link request settles, linking is false afterwards and
\* either it succeeded: the link dialog is closed, the search term and the
\* results are cleared, one more fetch of the case's persons is outstanding
\* and onUpdate (when given) has been called once more; or it failed: the
\* dialog, the search term, the results, the linked persons, the outstanding
\* fetches and the onUpdate calls are as before. Whenever an unlink request
\* settles, either it succeeded: personToUnlink is null, one more fetch is
\* outstanding and onUpdate has been called; or it failed: personToUnlink,
\* the linked persons, the fetches and the onUpdate calls are as before.
\* A fetch is only started, and personToUnlink only cleared, by a success;
\* an unlink request is only issued for a non-null personToUnlink.
C17_LinkUnlinkOutcome ==
  /\ [][Len(linkRequests') < Len(linkRequests) =>
          /\ ~linking'
          /\ \/ /\ toast' \in {"Person linked as reporter",
                               "Person linked as offender"}
                /\ ~linkDialogOpen'
                /\ searchTerm' = ""
                /\ searchResults' = <<>>
                /\ personsFetches' = personsFetches + 1
                /\ personsLoading'
                /\ onUpdate => onUpdateCalls' # onUpdateCalls
             \/ /\ toast' = "Failed to link person"
                /\ UNCHANGED <<linkDialogOpen, searchTerm, searchResults,
                               casePersons, personsFetches, personsLoading,
                               onUpdateCalls>>]_vars
  /\ [][Len(unlinkRequests') < Len(unlinkRequests) =>
          \/ /\ toast' = "Person unlinked from case"
             /\ personToUnlink' = NullPerson
             /\ ~unlinkDialogOpen'
             /\ personsFetches' = personsFetches + 1
             /\ personsLoading'
             /\ onUpdate => onUpdateCalls' # onUpdateCalls
          \/ /\ toast' = "Failed to unlink person"
             /\ UNCHANGED <<personToUnlink, casePersons, personsFetches,
                            personsLoading, onUpdateCalls>>]_vars
  /\ [][personsFetches' > personsFetches \/ onUpdateCalls' # onUpdateCalls =>
          /\ toast' \in {"Person linked as reporter",
                          "Person linked as offender",
                          "Person unlinked from case"}
          /\ Len(linkRequests') + Len(unlinkRequests')
               < Len(linkRequests) + Len(unlinkRequests)]_vars
  /\ [][personToUnlink # NullPerson /\ personToUnlink' = NullPerson =>
          /\ toast' = "Person unlinked from case"
          /\ Len(unlinkRequests') < Len(unlinkRequests)]_vars
  /\ [][Len(unlinkRequests') > Len(unlinkRequests) =>
          /\ personToUnlink # NullPerson
          /\ unlinkRequests'[Len(unlinkRequests')] = personToUnlink]_vars
  /\ [](\A k \in DOMAIN unlinkRequests : unlinkRequests[k] # NullPerson)

\* a link request has failed after an earlier success: the dialog is still
\* open with the term and the results the user had
C17_Witness ==
  /\ toast = "Failed to link person"
  /\ linkDialogOpen /\ searchTerm = "ann" /\ searchResults = <<"p1">>
  /\ ~linking /\ linkRequests = <<>>
  /\ onUpdate /\ onUpdateCalls = 1
  /\ personToUnlink = NullPerson
  /\ ~personsLoading /\ personsFetches = 0

\* C18: without canEdit neither dialog is ever open, personToUnlink is never
\* set and no POST or DELETE is ever outstanding; every link request carries
\* the role of the empty card whose Link button was pressed last, and every
\* unlink request the role of the card whose Unlink button was pressed last.
C18_EditGating ==
  /\ [](~canEdit =>
          /\ ~linkDialogOpen /\ ~unlinkDialogOpen
          /\ personToUnlink = NullPerson
          /\ linkRequests = <<>> /\ unlinkRequests = <<>>)
  /\ [][Len(linkRequests') > Len(linkRequests) =>
          /\ canEdit
          /\ linkButtonRole \in Roles
          /\ linkRequests'[Len(linkRequests')].role = linkButtonRole]_vars
  /\ [][Len(unlinkRequests') > Len(unlinkRequests) =>
          /\ canEdit
          /\ unlinkButtonRole \in Roles
          /\ unlinkRequests'[Len(unlinkRequests')].role = unlinkButtonRole]_vars
  /\ [][linkButtonRole' # linkButtonRole =>
          /\ casePersons[linkButtonRole'] = "null"
          /\ linkDialogOpen']_vars
  /\ [][unlinkButtonRole' # unlinkButtonRole =>
          /\ casePersons[unlinkButtonRole'] # "null"
          /\ unlinkDialogOpen']_vars

\* a POST for the offender role is outstanding after the Link button of the
\* empty offender card was pressed
C18_Witness ==
  /\ canEdit
  /\ Len(linkRequests) = 1
  /\ linkRequests[1] = [personId |-> "p1", role |-> "offender"]
  /\ linkButtonRole = "offender"
  /\ casePersons.offender = "null"
  /\ linking

====
